---- MODULE Spec2Model ----
(***************************************************************************)
(* git-changes: the change-computation and export engine                    *)
(* (GitChangesProcessor over the GitCli capability).                        *)
(*                                                                          *)
(* Text is a sequence of one-character strings, so that trimming, line      *)
(* splitting, whitespace splitting and prefix tests are computed the way    *)
(* the Rust string methods compute them.  ".diff" is kept as one symbol:   *)
(* nothing in the program looks inside it.                                  *)
(***************************************************************************)
EXTENDS Naturals, Sequences, FiniteSets, TLC

\* ------------------------------------------------------------------ bounds
\* Longest name-status output (in lines) git is let to produce.
MaxLines == 2

\* ------------------------------------------------------------------ text
Whitespace == {" ", "\t", "\n", "\r"}

RECURSIVE trim_start(_)
trim_start(s) ==
    IF s = <<>> THEN <<>>
    ELSE IF Head(s) \in Whitespace THEN trim_start(Tail(s)) ELSE s

RECURSIVE trim_end(_)
trim_end(s) ==
    IF s = <<>> THEN <<>>
    ELSE IF s[Len(s)] \in Whitespace THEN trim_end(SubSeq(s, 1, Len(s) - 1)) ELSE s

\* str::trim
trim(s) == trim_end(trim_start(s))

\* Pieces of s between separators, empty pieces included.
RECURSIVE SplitAcc(_, _, _, _)
SplitAcc(s, seps, cur, acc) ==
    IF s = <<>> THEN Append(acc, cur)
    ELSE IF Head(s) \in seps
         THEN SplitAcc(Tail(s), seps, <<>>, Append(acc, cur))
         ELSE SplitAcc(Tail(s), seps, Append(cur, Head(s)), acc)

SplitOn(s, seps) == SplitAcc(s, seps, <<>>, <<>>)

NonEmptyPieces(pieces) == SelectSeq(pieces, LAMBDA x : x # <<>>)

StripCr(l) ==
    IF l # <<>> /\ l[Len(l)] = "\r" THEN SubSeq(l, 1, Len(l) - 1) ELSE l

\* str::lines: split at "\n", no final empty line, a trailing "\r" dropped.
lines(s) ==
    LET pieces == SplitOn(s, {"\n"})
        kept == IF pieces[Len(pieces)] = <<>>
                THEN SubSeq(pieces, 1, Len(pieces) - 1) ELSE pieces
    IN  [i \in 1..Len(kept) |-> StripCr(kept[i])]

\* str::split_whitespace
split_whitespace(s) == NonEmptyPieces(SplitOn(s, Whitespace))

\* str::starts_with
starts_with(s, prefix) ==
    /\ Len(s) >= Len(prefix)
    /\ SubSeq(s, 1, Len(prefix)) = prefix

RECURSIVE Concat(_)
Concat(ss) == IF ss = <<>> THEN <<>> ELSE Head(ss) \o Concat(Tail(ss))

\* ------------------------------------------------------------------ paths
\* std::path: the components of a slash-separated string.
Components(s) == NonEmptyPieces(SplitOn(s, {"/"}))

\* Path::join of a directory (a component sequence) and a relative string.
Join(dir, s) == dir \o Components(s)

\* Path::parent
Parent(p) == SubSeq(p, 1, Len(p) - 1)

\* The suffix is forgotten: the diff goes to the content file's name.
DiffNameWithoutSuffix(path_str) == path_str

\* format!("{path_str}.diff")
DiffName(path_str) == path_str \o <<".diff">>

Ancestors(p) == {SubSeq(p, 1, n) : n \in 1..Len(p)}

\* ------------------------------------------------------------------ inputs
Https == <<"h", "t", "t", "p", "s", ":", "/", "/">>
GitAt == <<"g", "i", "t", "@">>

\* A local path; the other sources below begin with, contain, or fall one
\* character short of the two clone prefixes.
LocalSource == <<"/", "r">>

Sources ==
    { Https \o <<"x">>, GitAt \o <<"x">>, LocalSource,
      <<"h", "t", "t", "p", ":", "/", "/", "x">>,
      <<"x">> \o Https, <<"g", "i", "t">>, <<>> }

\* Root of the tree tree_fs provisions for a clone.
TempRoot == <<"tmp-tree">>
NoPath == <<"none">>

Heads == {"feature", "topic"}
ExplicitTarget == "main"
RemoteHead == "origin/master"

OutDir == << <<"tmp">>, <<"out">> >>

Pa == <<"a">>
Pdb == <<"d", "/", "b">>
Padiff == <<"a", ".diff">>
Pab == <<"a", " ", "b">>
Pd == <<"d">>

\* Lines git may print for one comparison: a status code, a tab and a path
\* (path <<>> stands for a line that carries a code and nothing else).
RecordChoices ==
    { [code |-> <<"A">>, path |-> Pa],  [code |-> <<"D">>, path |-> Pa],
      [code |-> <<"M">>, path |-> Pa],  [code |-> <<"T">>, path |-> Pdb],
      [code |-> <<"A">>, path |-> Padiff], [code |-> <<"M">>, path |-> Pab],
      [code |-> <<"A">>, path |-> Pd] }

SeqsUpTo(S, n) == UNION {[1..k -> S] : k \in 0..n}

Outputs == SeqsUpTo(RecordChoices, MaxLines)

DefaultOutput ==
    << [code |-> <<"M">>, path |-> Pa], [code |-> <<"M">>, path |-> <<>>],
       [code |-> <<"D">>, path |-> Pdb] >>

FirstOutput == << [code |-> <<"A">>, path |-> Pa] >>

SmallOutputs ==
    { FirstOutput,
      << [code |-> <<"D">>, path |-> Pa] >>,
      << [code |-> <<"M">>, path |-> Pdb] >> }

\* Lines with every kind of first field: the three codes --no-renames prints
\* most, the codes of renames, copies, type changes and unmerged paths, a
\* code with a similarity score, a line of one field and a line of three.
ParseRecords ==
    { [code |-> <<"A">>, path |-> Pa],  [code |-> <<"D">>, path |-> Pa],
      [code |-> <<"M">>, path |-> Pa],  [code |-> <<"R">>, path |-> Pa],
      [code |-> <<"C">>, path |-> <<>>], [code |-> <<"T">>, path |-> Pa],
      [code |-> <<"U">>, path |-> Pab],
      [code |-> <<"R", "1", "0", "0">>, path |-> Pa] }

ParseOutputs == SeqsUpTo(ParseRecords, MaxLines)

LineOf(r) == IF r.path = <<>> THEN r.code ELSE r.code \o <<"\t">> \o r.path

\* What git writes to stdout for the records: one LF-terminated line each.
Stdout(records) ==
    Concat([i \in 1..Len(records) |-> LineOf(records[i]) \o <<"\n">>])

\* Paths the records name, and those present in the tree of the analysed ref.
NamedPaths(records) ==
    {records[i].path : i \in {j \in 1..Len(records) : records[j].path # <<>>}}

PresentPaths(records) ==
    {records[i].path :
        i \in {j \in 1..Len(records) :
                  records[j].path # <<>> /\ records[j].code # <<"D">>}}

\* ------------------------------------------------------------------ data model
Added == "Added"
Modified == "Modified"
Deleted == "Deleted"
FileStatus == {Added, Modified, Deleted}

FileChange(path, status) == [path |-> path, status |-> status]

EmptyMap == <<>>

\* The entry already in the map is kept.
InsertKeepsFirst(m, k, v) ==
    [x \in DOMAIN m \cup {k} |-> IF x \in DOMAIN m THEN m[x] ELSE v]

\* HashMap::insert
Insert(m, k, v) == [x \in DOMAIN m \cup {k} |-> IF x = k THEN v ELSE m[x]]

Ops ==
    { "list_branch_changes", "list_changes_from_default_branch",
      "list_commit_changes", "export_branch_changes",
      "export_changes_from_default_branch", "export_commit_changes" }

ListOps ==
    { "list_branch_changes", "list_changes_from_default_branch",
      "list_commit_changes" }
ExportOps == Ops \ ListOps
BranchOps == Ops \ {"list_commit_changes", "export_commit_changes"}
DefaultOps ==
    { "list_changes_from_default_branch", "export_changes_from_default_branch" }

Callers == {"u1", "u2"}

VARIABLES
    source,      \* the repository string given to GitChangesProcessor::new
    ctor,        \* construction: "start", "workspace", "ready", "error"
    ctorErr,     \* the error construction returned, or "none"
    repo_path,   \* GitCli.repo_path of the processor, NoPath before it exists
    cloneLog,    \* the (url, directory) pairs git clone was run with
    heads,       \* the refs callers ask about
    nameStatus,  \* per analysed ref, the records git prints for its comparison
    branches,    \* refs git checkout accepts
    localObjs,   \* refs and commits the local object store resolves
    remoteObjs,  \* commits origin can serve
    originHead,  \* short name of refs/remotes/origin/HEAD, "none" if unset
    checkedOut,  \* the ref the bound working tree is at
    dirs,        \* directories that exist, as component sequences
    files,       \* files that exist: path -> content
    active,      \* the callers that use the processor
    calls,       \* "one": a caller makes a single call, as main does per
                 \* process; "many": a caller calls again after a return
    call,        \* per caller, the call in progress
    last         \* per caller, the call completed before the current one

repo == <<heads, nameStatus, branches, localObjs, remoteObjs, originHead, checkedOut>>
fs == <<dirs, files>>
construction == <<source, ctor, ctorErr, repo_path, cloneLog>>
users == <<active, calls>>
vars == <<construction, repo, fs, users, call, last>>

\* ------------------------------------------------------------------ parsing
\* get_changes_for_branch: the status of a first field.
BranchStatus(status_str) ==
    IF status_str = <<"A">> THEN Added
    ELSE IF status_str = <<"D">> THEN Deleted
    ELSE Modified

\* get_changes_for_branch: one line of the name-status output.
BranchLine(changes, line) ==
    LET parts == split_whitespace(line) IN
    IF Len(parts) >= 2
    THEN Insert(changes, parts[2], FileChange(parts[2], BranchStatus(parts[1])))
    ELSE changes

RECURSIVE BranchLines(_, _)
BranchLines(ls, changes) ==
    IF ls = <<>> THEN changes
    ELSE BranchLines(Tail(ls), BranchLine(changes, Head(ls)))

\* Only the three codes of the data model are told apart.
CommitStatusKnownCodes(status_str) ==
    IF status_str = <<"A">> THEN Added
    ELSE IF status_str = <<"M">> THEN Modified
    ELSE Deleted

\* get_changes_for_commits: the same three definitions, written out again in
\* the source.
CommitStatus(status_str) ==
    IF status_str = <<"A">> THEN Added
    ELSE IF status_str = <<"D">> THEN Deleted
    ELSE Modified

CommitLine(all_changes, line) ==
    LET parts == split_whitespace(line) IN
    IF Len(parts) >= 2
    THEN Insert(all_changes, parts[2],
                FileChange(parts[2], CommitStatus(parts[1])))
    ELSE all_changes

RECURSIVE CommitLines(_, _)
CommitLines(ls, all_changes) ==
    IF ls = <<>> THEN all_changes
    ELSE CommitLines(Tail(ls), CommitLine(all_changes, Head(ls)))

\* ------------------------------------------------------------------ capability
\* run_git_command: stdout of a successful command, trimmed.
run_git_command(stdout) == trim(stdout)

Exists(p, d, f) == p = <<>> \/ p \in d \/ p \in DOMAIN f

\* The parent directory is made before the command is run.
run_git_command_to_file_dirs_first(ran, content, output_file_path, d, f) ==
    LET parent_dir == Parent(output_file_path)
        mk == ~Exists(parent_dir, d, f)
        mkOk == \A a \in Ancestors(parent_dir) : a \notin DOMAIN f
        d2 == IF mk /\ mkOk THEN d \cup Ancestors(parent_dir) ELSE d
        createOk == /\ output_file_path \notin d2
                    /\ (parent_dir = <<>> \/ parent_dir \in d2)
    IN  IF mk /\ ~mkOk THEN [err |-> "IoError", dirs |-> d, files |-> f]
        ELSE IF ~ran THEN [err |-> "GitCommandError", dirs |-> d2, files |-> f]
        ELSE IF ~createOk THEN [err |-> "IoError", dirs |-> d2, files |-> f]
        ELSE [err |-> "none", dirs |-> d2,
              files |-> [x \in DOMAIN f \cup {output_file_path} |->
                            IF x = output_file_path THEN content ELSE f[x]]]

\* run_git_command_to_file: the filesystem after the command, and the error.
\* ran: the command was spawned and exited zero.  create_dir_all fails when
\* an ancestor is a file; File::create fails on a directory and under a
\* parent that is no directory.
run_git_command_to_file(ran, content, output_file_path, d, f) ==
    LET parent_dir == Parent(output_file_path)
        mk == ~Exists(parent_dir, d, f)
        mkOk == \A a \in Ancestors(parent_dir) : a \notin DOMAIN f
        d2 == IF mk /\ mkOk THEN d \cup Ancestors(parent_dir) ELSE d
        createOk == /\ output_file_path \notin d2
                    /\ (parent_dir = <<>> \/ parent_dir \in d2)
    IN  IF ~ran THEN [err |-> "GitCommandError", dirs |-> d, files |-> f]
        ELSE IF mk /\ ~mkOk THEN [err |-> "IoError", dirs |-> d, files |-> f]
        ELSE IF ~createOk THEN [err |-> "IoError", dirs |-> d2, files |-> f]
        ELSE [err |-> "none", dirs |-> d2,
              files |-> [x \in DOMAIN f \cup {output_file_path} |->
                            IF x = output_file_path THEN content ELSE f[x]]]

\* Refs a diff can name.
Resolves(r) ==
    r \in localObjs \cup {ExplicitTarget} \cup ({originHead} \ {"none"})

\* ------------------------------------------------------------------ initial states
NoDir == <<>>

IdleCall ==
    [ pc |-> "idle", op |-> "none", head |-> "none", target_branch |-> "none",
      output_dir |-> NoDir, change_files |-> EmptyMap, todo |-> {},
      cur |-> <<>>, fresh |-> FALSE, dirs0 |-> {}, result |-> EmptyMap,
      err |-> "none", cmds |-> <<>>, wrote |-> <<>>, alone |-> TRUE,
      tree |-> "none" ]

NoCall ==
    [ op |-> "none", head |-> "none", ok |-> FALSE, fetched |-> FALSE,
      result |-> EmptyMap ]

InitCommon ==
    /\ ctor = "start"
    /\ ctorErr = "none"
    /\ repo_path = NoPath
    /\ cloneLog = <<>>
    /\ checkedOut = ExplicitTarget
    /\ files = <<>>
    /\ call = [u \in Callers |-> IdleCall]
    /\ last = [u \in Callers |-> NoCall]

Healthy ==
    /\ branches = heads
    /\ localObjs = heads
    /\ remoteObjs = heads
    /\ originHead = RemoteHead

\* One analysed ref, every output git may print for it, a complete repository.
InitOutputs ==
    /\ source = LocalSource
    /\ heads = {"feature"}
    /\ \E out \in Outputs : nameStatus = [h \in Heads |-> out]
    /\ Healthy
    /\ dirs = {}

\* Every repository string, one output.
InitSources ==
    /\ source \in Sources
    /\ heads = {"feature"}
    /\ nameStatus = [h \in Heads |-> DefaultOutput]
    /\ Healthy
    /\ dirs = {}

\* Repositories that lack the branch, the commit, the remote's copy of the
\* commit or the remote HEAD.
InitRepositories ==
    /\ source = LocalSource
    /\ heads = {"feature"}
    /\ nameStatus = [h \in Heads |-> DefaultOutput]
    /\ branches \in SUBSET heads
    /\ localObjs \in SUBSET heads
    /\ branches \subseteq localObjs
    /\ remoteObjs \in SUBSET heads
    /\ originHead \in {"none", RemoteHead}
    /\ dirs \in {{}, Ancestors(OutDir)}

\* Two analysed refs with different outputs.
InitTwoHeads ==
    /\ source = LocalSource
    /\ heads = Heads
    /\ nameStatus \in [Heads -> SmallOutputs]
    /\ nameStatus["feature"] = FirstOutput
    /\ Healthy
    /\ dirs = {}

\* One analysed ref in a complete local repository, every output made of
\* ParseRecords; or a clone that holds no branch and no commit yet.
InitParsing ==
    /\ InitCommon
    /\ active = {"u1"}
    /\ calls = "many"
    /\ heads = {"feature"}
    /\ dirs = {}
    /\ \/ /\ source = LocalSource
          /\ \E out \in ParseOutputs : nameStatus = [h \in Heads |-> out]
          /\ Healthy
       \/ /\ source = GitAt \o <<"x">>
          /\ nameStatus = [h \in Heads |-> FirstOutput]
          /\ branches = {}
          /\ localObjs = {}
          /\ remoteObjs = heads
          /\ originHead = RemoteHead

\* Two callers share the processor and make one call each: over two branches
\* of a complete local repository, or over a clone that holds no branch and
\* no commit yet.
InitConcurrent ==
    /\ InitCommon
    /\ active = Callers
    /\ calls = "one"
    /\ dirs = {}
    /\ \/ /\ source = LocalSource
          /\ heads = Heads
          /\ nameStatus \in [Heads -> SmallOutputs]
          /\ nameStatus["feature"] = FirstOutput
          /\ Healthy
       \/ /\ source = GitAt \o <<"x">>
          /\ heads = {"feature"}
          /\ nameStatus = [h \in Heads |-> FirstOutput]
          /\ branches = {}
          /\ localObjs = {}
          /\ remoteObjs = heads
          /\ originHead = RemoteHead

Init ==
    /\ InitCommon
    /\ active = {"u1"}
    /\ calls = "many"
    /\ (InitOutputs \/ InitSources \/ InitRepositories \/ InitTwoHeads)

\* ------------------------------------------------------------------ construction
\* Only the HTTPS prefix is recognised.
is_url_https_only(repo_str) == starts_with(repo_str, Https)

\* GitChangesProcessor::new: the source is a URL.
is_url(repo_str) == starts_with(repo_str, Https) \/ starts_with(repo_str, GitAt)

\* GitCli::new_with_temp_workspace, called by new for a URL.
NewWithTempWorkspace ==
    /\ ctor = "start"
    /\ is_url(source)
    /\ \E created \in BOOLEAN :
          IF created
          THEN /\ ctor' = "workspace"
               /\ repo_path' = TempRoot
               /\ ctorErr' = ctorErr
          ELSE /\ ctor' = "error"
               /\ ctorErr' = "TempDirError"
               /\ repo_path' = repo_path
    /\ UNCHANGED <<source, cloneLog, repo, fs, users, call, last>>

\* GitCli::clone_repo, and new returning the processor or the error.
CloneRepo ==
    /\ ctor = "workspace"
    /\ cloneLog' = Append(cloneLog, [url |-> source, dir |-> repo_path])
    /\ \E cloned \in BOOLEAN :
          IF cloned
          THEN /\ ctor' = "ready"
               /\ ctorErr' = ctorErr
               /\ repo_path' = repo_path
          ELSE /\ ctor' = "error"
               /\ ctorErr' = "GitCommandError"
               /\ repo_path' = NoPath
    /\ UNCHANGED <<source, repo, fs, users, call, last>>

\* GitChangesProcessor::new_from_local, called by new for any other string.
NewFromLocal ==
    /\ ctor = "start"
    /\ ~is_url(source)
    /\ ctor' = "ready"
    /\ repo_path' = source
    /\ UNCHANGED <<source, ctorErr, cloneLog, repo, fs, users, call, last>>

\* ------------------------------------------------------------------ calls
\* One git invocation: the subcommand, how its revisions are written
\* ("three-dot": base...ref, "parent": ref^ ref, "parent-two-dot": ref^..ref,
\* "blob": ref:path), the revisions, the path and whether it exited zero.
Cmd(name, range, base, ref, path, ok) ==
    [cmd |-> name, range |-> range, base |-> base, ref |-> ref,
     path |-> path, ok |-> ok]

\* What a file written by run_git_command_to_file holds.
Content(kind, range, base, ref, path) ==
    [kind |-> kind, range |-> range, base |-> base, ref |-> ref, path |-> path]

Log(c, cmd) == [c EXCEPT !.cmds = Append(@, cmd)]

\* The error is recorded and the operation goes on.
FailAndContinue(c, e) == [c EXCEPT !.err = e]

\* `?`: the operation returns the error.
Fail(c, e) == [c EXCEPT !.pc = "done", !.err = e]

\* The operations with an explicit target compare without a checkout.
FirstStepWithoutCheckout(op) ==
    IF op \in DefaultOps THEN "discover"
    ELSE IF op \in BranchOps THEN "branch_diff"
    ELSE "cat_file"

\* The first capability call of each operation.
FirstStep(op) ==
    IF op = "export_changes_from_default_branch" THEN "discover"
    ELSE IF op \in BranchOps THEN "checkout"
    ELSE "cat_file"

Summary(c) ==
    [ op |-> c.op, head |-> c.head, ok |-> c.err = "none",
      fetched |-> \E i \in 1..Len(c.cmds) : c.cmds[i].cmd = "fetch origin",
      result |-> c.result ]

UnderOut(p) == Len(p) > Len(OutDir) /\ SubSeq(p, 1, Len(OutDir)) = OutDir

InProgress(c) == c.pc \notin {"idle", "done"}

\* main: one of the six operations is called on the processor.  alone records
\* that no call of another caller overlaps this one, tree the ref the working
\* tree is at when the call runs its name-status diff.
Invoke(u) ==
    /\ ctor = "ready"
    /\ u \in active
    /\ call[u].pc = "idle" \/ (call[u].pc = "done" /\ calls = "many")
    /\ \E op \in Ops, h \in heads :
          call' = [v \in Callers |->
                     IF v = u
                     THEN [IdleCall EXCEPT
                        !.pc = FirstStep(op),
                        !.op = op,
                        !.head = h,
                        !.target_branch =
                            IF op \in DefaultOps \/ op \notin BranchOps
                            THEN "none" ELSE ExplicitTarget,
                        !.output_dir = IF op \in ExportOps THEN OutDir ELSE NoDir,
                        !.fresh = \A f \in DOMAIN files : ~UnderOut(f),
                        !.dirs0 = dirs,
                        !.alone = \A w \in Callers \ {u} : ~InProgress(call[w])]
                     ELSE IF InProgress(call[v])
                          THEN [call[v] EXCEPT !.alone = FALSE]
                          ELSE call[v]]
    /\ last' = [last EXCEPT ![u] =
                  IF call[u].pc = "done" THEN Summary(call[u]) ELSE @]
    /\ UNCHANGED <<construction, repo, fs, users>>

\* Every operation looks the default branch up after its checkout.
AfterCheckoutAlwaysDiscovers(op) == "discover"

\* export_branch_changes, list_branch_changes, list_changes_from_default_branch:
\* where the call goes after a successful checkout.
AfterCheckout(op) ==
    IF op = "list_changes_from_default_branch" THEN "discover" ELSE "branch_diff"

\* GitCli::checkout_branch and the `?` of its callers.
CheckoutBranch(u) ==
    LET c == call[u]
        ok == c.head \in branches
        logged == Log(c, Cmd("checkout", "none", "none", c.head, <<>>, ok))
    IN  /\ u \in active
        /\ c.pc = "checkout"
        /\ checkedOut' = IF ok THEN c.head ELSE checkedOut
        /\ call' = [call EXCEPT ![u] =
                      IF ok THEN [logged EXCEPT !.pc = AfterCheckout(c.op)]
                      ELSE Fail(logged, "GitCommandError")]
        /\ UNCHANGED <<construction, heads, nameStatus, branches, localObjs,
                       remoteObjs, originHead, fs, users, last>>

\* The default branch is compared with whatever is checked out.
AfterDiscoverSkipsCheckout(op) == "branch_diff"

\* export_changes_from_default_branch, list_changes_from_default_branch:
\* where the call goes once the default branch is known.
AfterDiscover(op) ==
    IF op = "export_changes_from_default_branch" THEN "checkout"
    ELSE "branch_diff"

\* GitCli::discover_default_branch: the short name of the remote's symbolic
\* HEAD, an error when it is undefined.
discover_default_branch(head_ref) ==
    IF head_ref = "none"
    THEN [ok |-> FALSE, value |-> "none"]
    ELSE [ok |-> TRUE, value |-> head_ref]

\* The two callers of discover_default_branch, each with `?`.
DiscoverDefaultBranch(u) ==
    LET c == call[u]
        found == discover_default_branch(originHead)
        logged == Log(c, Cmd("symbolic-ref", "none", "none", "origin/HEAD",
                             <<>>, found.ok))
    IN  /\ u \in active
        /\ c.pc = "discover"
        /\ call' = [call EXCEPT ![u] =
                      IF found.ok
                      THEN [logged EXCEPT !.pc = AfterDiscover(c.op),
                                          !.target_branch = found.value]
                      ELSE Fail(logged, "GitCommandError")]
        /\ UNCHANGED <<construction, repo, fs, users, last>>

\* The export returns only what it wrote something for.
ExportedMapWithoutDeleted(change_files) ==
    [p \in {q \in DOMAIN change_files : change_files[q].status # Deleted} |->
        change_files[p]]

\* Ok(change_files) of the two export operations.
ExportedMap(change_files) == change_files

\* Every operation runs the export loop.
ComputedAlwaysExports(c, changes) ==
    [c EXCEPT !.pc = "export", !.change_files = changes, !.todo = DOMAIN changes]

\* A change map is in hand: a list operation returns it, an export starts
\* its loop over the entries.
Computed(c, changes) ==
    IF c.op \in ListOps
    THEN [c EXCEPT !.pc = "done", !.result = changes]
    ELSE [c EXCEPT !.pc = "export", !.change_files = changes,
                   !.todo = DOMAIN changes]

\* get_changes_for_branch: the three-dot name-status diff and its parsing.
GetChangesForBranch(u) ==
    LET c == call[u]
        ok == Resolves(c.target_branch) /\ Resolves(c.head)
        logged == [Log(c, Cmd("diff --name-status", "three-dot",
                              c.target_branch, c.head, <<>>, ok))
                      EXCEPT !.tree = checkedOut]
        output == run_git_command(Stdout(nameStatus[c.head]))
        changes == BranchLines(lines(output), EmptyMap)
    IN  /\ u \in active
        /\ c.pc = "branch_diff"
        /\ call' = [call EXCEPT ![u] =
                      IF ok THEN Computed(logged, changes)
                      ELSE Fail(logged, "GitCommandError")]
        /\ UNCHANGED <<construction, repo, fs, users, last>>

\* The existence check is ignored: every call fetches.
AlwaysFetch(commit_exists) == TRUE

\* get_changes_for_commits: a fetch is needed.
NeedsFetch(commit_exists) == ~commit_exists

\* get_changes_for_commits: git cat-file -e, whose failure is not an error.
CommitExists(u) ==
    LET c == call[u]
        commit_exists == c.head \in localObjs
        logged == Log(c, Cmd("cat-file -e", "none", "none", c.head, <<>>,
                             commit_exists))
    IN  /\ u \in active
        /\ c.pc = "cat_file"
        /\ call' = [call EXCEPT ![u] =
                      [logged EXCEPT !.pc = IF NeedsFetch(commit_exists)
                                            THEN "fetch" ELSE "commit_diff"]]
        /\ UNCHANGED <<construction, repo, fs, users, last>>

\* get_changes_for_commits: git fetch origin <commit>; the remote must hold
\* the commit and be reachable.
FetchCommit(u) ==
    LET c == call[u] IN
    /\ u \in active
    /\ c.pc = "fetch"
    /\ \E reachable \in BOOLEAN :
          LET ok == reachable /\ c.head \in remoteObjs
              logged == Log(c, Cmd("fetch origin", "none", "none", c.head,
                                   <<>>, ok))
          IN  /\ localObjs' = IF ok THEN localObjs \cup {c.head} ELSE localObjs
              /\ call' = [call EXCEPT ![u] =
                            IF ok THEN [logged EXCEPT !.pc = "commit_diff"]
                            ELSE Fail(logged, "GitCommandError")]
    /\ UNCHANGED <<construction, heads, nameStatus, branches, remoteObjs,
                   originHead, checkedOut, fs, users, last>>

\* get_changes_for_commits: the parent-to-commit name-status diff and its
\* parsing into a new map.
GetChangesForCommits(u) ==
    LET c == call[u]
        ok == Resolves(c.head)
        logged == Log(c, Cmd("diff --name-status", "parent", "none", c.head,
                             <<>>, ok))
        output == run_git_command(Stdout(nameStatus[c.head]))
        all_changes == CommitLines(lines(output), EmptyMap)
    IN  /\ u \in active
        /\ c.pc = "commit_diff"
        /\ call' = [call EXCEPT ![u] =
                      IF ok THEN Computed(logged, all_changes)
                      ELSE Fail(logged, "GitCommandError")]
        /\ UNCHANGED <<construction, repo, fs, users, last>>

\* ------------------------------------------------------------------ export
\* One call of run_git_command_to_file inside an export loop, with the `?`
\* that ends the export on an error; on success the loop goes on at okpc.
WriteFile(u, entry, cmd, ran, content, output_file_path, okpc) ==
    LET c == call[u]
        r == run_git_command_to_file(ran, content, output_file_path, dirs, files)
        logged == Log(c, cmd)
    IN  /\ dirs' = r.dirs
        /\ files' = r.files
        /\ call' = [call EXCEPT ![u] =
                      IF r.err = "none"
                      THEN [logged EXCEPT
                              !.pc = okpc,
                              !.todo = @ \ {entry},
                              !.cur = IF okpc = "export_diff" THEN entry ELSE <<>>,
                              !.wrote = Append(@, [entry |-> entry,
                                                   file |-> output_file_path,
                                                   content |-> content])]
                      ELSE Fail(logged, r.err)]

\* git show <ref>:<path> exits zero when it can be spawned and the path is in
\* the tree of the ref.
ShowRuns(spawned, head, path_str) ==
    spawned /\ path_str \in PresentPaths(nameStatus[head])

\* export_branch_changes: the loop body up to the content file, for the entry
\* the HashMap iteration yields next.
ExportBranchEntry(u) ==
    LET c == call[u] IN
    /\ u \in active
    /\ c.pc = "export"
    /\ c.op \in BranchOps
    /\ \E path_str \in c.todo, spawned \in BOOLEAN :
          LET status == c.change_files[path_str].status
              ran == ShowRuns(spawned, c.head, path_str)
          IN  IF status = Deleted
              THEN /\ call' = [call EXCEPT ![u].todo = @ \ {path_str}]
                   /\ UNCHANGED fs
              ELSE WriteFile(u, path_str,
                             Cmd("show", "blob", "none", c.head, path_str, ran),
                             ran,
                             Content("show", "blob", "none", c.head, path_str),
                             Join(c.output_dir, path_str),
                             IF status = Modified THEN "export_diff" ELSE "export")
    /\ UNCHANGED <<construction, repo, users, last>>

\* export_branch_changes: the .diff file of a Modified entry.
ExportBranchDiff(u) ==
    LET c == call[u] IN
    /\ u \in active
    /\ c.pc = "export_diff"
    /\ c.op \in BranchOps
    /\ \E spawned \in BOOLEAN :
          WriteFile(u, c.cur,
                    Cmd("diff", "three-dot", c.target_branch, c.head, c.cur,
                        spawned),
                    spawned,
                    Content("diff", "three-dot", c.target_branch, c.head, c.cur),
                    Join(c.output_dir, DiffName(c.cur)),
                    "export")
    /\ UNCHANGED <<construction, repo, users, last>>

\* export_branch_changes: the loop is over.
ExportBranchReturn(u) ==
    LET c == call[u] IN
    /\ u \in active
    /\ c.pc = "export"
    /\ c.op \in BranchOps
    /\ c.todo = {}
    /\ call' = [call EXCEPT ![u] =
                  [c EXCEPT !.pc = "done", !.result = ExportedMap(c.change_files)]]
    /\ UNCHANGED <<construction, repo, fs, users, last>>

\* export_commit_changes: the loop body up to the content file.
ExportCommitEntry(u) ==
    LET c == call[u] IN
    /\ u \in active
    /\ c.pc = "export"
    /\ c.op = "export_commit_changes"
    /\ \E path_str \in c.todo, spawned \in BOOLEAN :
          LET status == c.change_files[path_str].status
              ran == ShowRuns(spawned, c.head, path_str)
          IN  IF status = Deleted
              THEN /\ call' = [call EXCEPT ![u].todo = @ \ {path_str}]
                   /\ UNCHANGED fs
              ELSE WriteFile(u, path_str,
                             Cmd("show", "blob", "none", c.head, path_str, ran),
                             ran,
                             Content("show", "blob", "none", c.head, path_str),
                             Join(c.output_dir, path_str),
                             IF status = Modified THEN "export_diff" ELSE "export")
    /\ UNCHANGED <<construction, repo, users, last>>

\* export_commit_changes: the .diff file of a Modified entry.
ExportCommitDiff(u) ==
    LET c == call[u] IN
    /\ u \in active
    /\ c.pc = "export_diff"
    /\ c.op = "export_commit_changes"
    /\ \E spawned \in BOOLEAN :
          WriteFile(u, c.cur,
                    Cmd("diff", "parent-two-dot", "none", c.head, c.cur, spawned),
                    spawned,
                    Content("diff", "parent-two-dot", "none", c.head, c.cur),
                    Join(c.output_dir, DiffName(c.cur)),
                    "export")
    /\ UNCHANGED <<construction, repo, users, last>>

\* export_commit_changes: the loop is over.
ExportCommitReturn(u) ==
    LET c == call[u] IN
    /\ u \in active
    /\ c.pc = "export"
    /\ c.op = "export_commit_changes"
    /\ c.todo = {}
    /\ call' = [call EXCEPT ![u] =
                  [c EXCEPT !.pc = "done", !.result = ExportedMap(c.change_files)]]
    /\ UNCHANGED <<construction, repo, fs, users, last>>

\* ------------------------------------------------------------------ specification
Next ==
    \/ NewWithTempWorkspace
    \/ CloneRepo
    \/ NewFromLocal
    \/ \E u \in Callers : Invoke(u)
    \/ \E u \in Callers : CheckoutBranch(u)
    \/ \E u \in Callers : DiscoverDefaultBranch(u)
    \/ \E u \in Callers : GetChangesForBranch(u)
    \/ \E u \in Callers : CommitExists(u)
    \/ \E u \in Callers : FetchCommit(u)
    \/ \E u \in Callers : GetChangesForCommits(u)
    \/ \E u \in Callers : ExportBranchEntry(u)
    \/ \E u \in Callers : ExportBranchDiff(u)
    \/ \E u \in Callers : ExportBranchReturn(u)
    \/ \E u \in Callers : ExportCommitEntry(u)
    \/ \E u \in Callers : ExportCommitDiff(u)
    \/ \E u \in Callers : ExportCommitReturn(u)

Spec == Init /\ [][Next]_vars

\* The same program with two callers on one processor.
SpecConcurrent == InitConcurrent /\ [][Next]_vars

\* The same program over the outputs that exercise the parser.
SpecParsing == InitParsing /\ [][Next]_vars

\* ------------------------------------------------------------------ properties
Succeeded(c) == c.pc = "done" /\ c.err = "none"

StatusesOf(m) == {m[p].status : p \in DOMAIN m}

ToFileCmds == {"show", "diff"}

\* C1: after a successful export into an output directory that held no file,
\* every Added or Modified path of the returned map has its content file, every
\* Modified path has its .diff file as well, and the export wrote nothing for a
\* Deleted path.
ExportCompleteness ==
    \A u \in Callers :
        LET c == call[u] IN
        (Succeeded(c) /\ c.op \in ExportOps /\ c.fresh) =>
            \A p \in DOMAIN c.result :
                /\ c.result[p].status \in {Added, Modified}
                      => Join(OutDir, p) \in DOMAIN files
                /\ c.result[p].status = Modified
                      => Join(OutDir, p \o <<".diff">>) \in DOMAIN files
                /\ c.result[p].status = Deleted
                      => \A i \in 1..Len(c.wrote) : c.wrote[i].entry # p

ExportCompletenessWitness ==
    \E u \in Callers :
        LET c == call[u] IN
        /\ Succeeded(c) /\ c.op \in ExportOps /\ c.fresh
        /\ {Modified, Deleted} \subseteq StatusesOf(c.result)
        /\ Len(c.wrote) = 2

\* C2: the map get_changes_for_branch returns has exactly the paths the
\* name-status output names as keys, each key is the path of its value, and
\* every status is Added, Modified or Deleted.
BranchKeysAreNamedPaths ==
    \A u \in Callers :
        LET c == call[u] IN
        (Succeeded(c) /\ c.op \in BranchOps) =>
            /\ DOMAIN c.result = NamedPaths(nameStatus[c.head])
            /\ \A p \in DOMAIN c.result :
                  c.result[p].path = p /\ c.result[p].status \in FileStatus

\* C3: a list operation that follows a successful call of the same list
\* operation for the same target succeeds with the identical map, whatever
\* the first call checked out or fetched.
ListIdempotent ==
    \A u \in Callers :
        LET c == call[u] IN
        ( /\ c.pc = "done" /\ c.op \in ListOps
          /\ last[u].ok /\ last[u].op = c.op /\ last[u].head = c.head )
            => (c.err = "none" /\ c.result = last[u].result)

ListIdempotentWitness ==
    \E u \in Callers :
        LET c == call[u] IN
        /\ Succeeded(c) /\ c.op = "list_commit_changes"
        /\ last[u].ok /\ last[u].op = c.op /\ last[u].head = c.head
        /\ last[u].fetched
        /\ c.result = last[u].result /\ c.result # EmptyMap

\* Last-write-wins union of two maps.
MergeMaps(m1, m2) ==
    [p \in DOMAIN m1 \cup DOMAIN m2 |-> IF p \in DOMAIN m2 THEN m2[p] ELSE m1[p]]

ParsedFor(h) == CommitLines(lines(run_git_command(Stdout(nameStatus[h]))), EmptyMap)

\* C4: when the commits of a list have been processed in caller order, the
\* returned map is the last-write-wins union of the per-commit maps.
CommitsMergedInOrder ==
    \A u \in Callers :
        LET c == call[u] IN
        ( /\ Succeeded(c) /\ c.op = "list_commit_changes"
          /\ last[u].ok /\ last[u].op = "list_commit_changes"
          /\ last[u].head # c.head )
            => c.result = MergeMaps(ParsedFor(last[u].head), ParsedFor(c.head))

DiscoveryFailed(c) ==
    \E i \in 1..Len(c.cmds) : c.cmds[i].cmd = "symbolic-ref" /\ ~c.cmds[i].ok

\* C5: a branch operation without a configured target branch whose
\* default-branch discovery failed does not fail, and origin/main is its
\* comparison base.
FallsBackToOriginMain ==
    \A u \in Callers :
        LET c == call[u] IN
        (c.op \in DefaultOps /\ DiscoveryFailed(c)) =>
            /\ c.err = "none"
            /\ c.target_branch = "origin/main"

BeginsWith(s, prefix) == \E n \in 0..Len(s) : SubSeq(s, 1, n) = prefix

NamesCloneSource(s) == BeginsWith(s, Https) \/ BeginsWith(s, GitAt)

Constructed == ctor \in {"ready", "error"}

\* C6 as stated: construction clones if and only if the source begins with
\* https:// or git@.
ClonesIffUrlPrefix ==
    Constructed => (cloneLog # <<>> <=> NamesCloneSource(source))

\* C6: construction clones, into the temporary tree, if and only if the
\* source begins with https:// or git@ and the temporary tree could be
\* provisioned; any other source is bound as a local path without a clone; a
\* failed provisioning or a failed clone leaves an error and no processor.
ClonesIffUrlPrefixAndWorkspace ==
    Constructed =>
        /\ cloneLog # <<>>
              <=> (NamesCloneSource(source) /\ ctorErr # "TempDirError")
        /\ \A i \in 1..Len(cloneLog) :
              cloneLog[i].url = source /\ cloneLog[i].dir = TempRoot
        /\ ~NamesCloneSource(source)
              => (ctor = "ready" /\ repo_path = source)
        /\ (NamesCloneSource(source) /\ ctor = "ready") => repo_path = TempRoot
        /\ ctorErr # "none" => ctor = "error"
        /\ ctor = "error" => ctorErr \in {"TempDirError", "GitCommandError"}

ClonesIffUrlPrefixWitness ==
    /\ ctor = "ready"
    /\ starts_with(source, GitAt)
    /\ cloneLog # <<>>
    /\ repo_path = TempRoot

\* C7: no step of a list operation runs a command to a file or changes a
\* directory or a file.
ListOpsWriteNothing ==
    [][ \A u \in Callers :
          (call[u].op \in ListOps /\ InProgress(call[u]) /\ call'[u] # call[u])
             => /\ dirs' = dirs
                /\ files' = files
                /\ call'[u].wrote = <<>>
                /\ \A i \in 1..Len(call'[u].cmds) :
                      call'[u].cmds[i].cmd \notin ToFileCmds ]_vars

ListOpsWriteNothingWitness ==
    \E u \in Callers :
        LET c == call[u] IN
        /\ Succeeded(c) /\ c.op \in ListOps
        /\ {Added, Modified} \subseteq StatusesOf(c.result)
        /\ files = <<>> /\ dirs = {}

ListOf(op) ==
    IF op = "export_branch_changes" THEN "list_branch_changes"
    ELSE IF op = "export_changes_from_default_branch"
         THEN "list_changes_from_default_branch"
    ELSE IF op = "export_commit_changes" THEN "list_commit_changes"
    ELSE op

\* C8: a successful export and a successful call of its list operation for
\* the same target, one right after the other, return the same map, Deleted
\* paths included.
ExportReturnsListedMap ==
    \A u \in Callers :
        LET c == call[u] IN
        ( /\ Succeeded(c) /\ last[u].ok /\ last[u].head = c.head
          /\ c.op # last[u].op /\ ListOf(c.op) = ListOf(last[u].op) )
            => c.result = last[u].result

ExportReturnsListedMapWitness ==
    \E u \in Callers :
        LET c == call[u] IN
        /\ Succeeded(c) /\ c.op \in ExportOps
        /\ last[u].ok /\ last[u].head = c.head /\ last[u].op = ListOf(c.op)
        /\ Deleted \in StatusesOf(c.result)
        /\ c.wrote # <<>>
        /\ c.result = last[u].result

RanToFile(c) ==
    {i \in 1..Len(c.cmds) : c.cmds[i].cmd \in ToFileCmds /\ c.cmds[i].ok}

\* C9: in an export, an error ends the call with no map returned; a show or
\* per-path diff that failed is the last command issued; the files written so
\* far are one per successful command to a file and all still exist.
ExportStopsAtFirstFailure ==
    \A u \in Callers :
        LET c == call[u] IN
        c.op \in ExportOps =>
            /\ c.err # "none" => (c.pc = "done" /\ c.result = EmptyMap)
            /\ \A i \in 1..Len(c.cmds) :
                  (c.cmds[i].cmd \in ToFileCmds /\ ~c.cmds[i].ok)
                     => (i = Len(c.cmds) /\ c.err = "GitCommandError")
            /\ c.err = "IoError" => Len(c.cmds) \in RanToFile(c)
            /\ \A i \in 1..Len(c.wrote) : c.wrote[i].file \in DOMAIN files
            /\ Len(c.wrote) + (IF c.err = "IoError" THEN 1 ELSE 0)
                  = Cardinality(RanToFile(c))

ExportStopsAtFirstFailureWitness ==
    \E u \in Callers :
        LET c == call[u] IN
        /\ c.op \in ExportOps /\ c.pc = "done" /\ c.err = "GitCommandError"
        /\ c.cmds[Len(c.cmds)].cmd \in ToFileCmds
        /\ c.wrote # <<>>
        /\ c.todo # {}

WrittenParents(c) ==
    UNION {Ancestors(Parent(c.wrote[i].file)) : i \in 1..Len(c.wrote)}

\* C10: after a successful export the output directory exists, and the
\* directories the export created are the output directory and parents of
\* files it wrote.
OutputDirEnsured ==
    \A u \in Callers :
        LET c == call[u] IN
        (Succeeded(c) /\ c.op \in ExportOps) =>
            /\ OutDir \in dirs
            /\ (dirs \ c.dirs0) \subseteq (Ancestors(OutDir) \cup WrittenParents(c))

\* C11: after a successful export every file it wrote holds what each write
\* to that file put there: no two entries of the map write different contents
\* to one output file, so the final content of every output file is the same
\* for every order in which the entries are processed.
ExportOrderIndependent ==
    \A u \in Callers :
        LET c == call[u] IN
        (Succeeded(c) /\ c.op \in ExportOps) =>
            \A i \in 1..Len(c.wrote) :
                files[c.wrote[i].file] = c.wrote[i].content

\* What the name-status format says of a record: the status its code stands
\* for, and the second field of its line, which is the path up to its first
\* whitespace.
StatusOfCode(code) ==
    IF code = <<"A">> THEN Added
    ELSE IF code = <<"D">> THEN Deleted
    ELSE Modified

SecondField(r) ==
    LET ends == {k \in 0..Len(r.path) :
                    k = Len(r.path) \/ r.path[k + 1] \in Whitespace}
        n == CHOOSE k \in ends : \A j \in ends : k <= j
    IN  SubSeq(r.path, 1, n)

\* The lines that carry at least two fields.
TwoFields(records) == {i \in 1..Len(records) : records[i].path # <<>>}

\* C12: the map of every successful operation, branch or commit, has as keys
\* the second fields of the lines with at least two fields; each entry has
\* the status some such line's first field stands for (A Added, D Deleted,
\* anything else Modified); lines of one field and fields after the second
\* add nothing; a branch operation and a commit operation over the same
\* output return the same map.
ParsedAlikeInBothCases ==
    \A u \in Callers :
        LET c == call[u]
            recs == nameStatus[c.head]
            two == TwoFields(recs)
        IN  Succeeded(c) =>
              /\ DOMAIN c.result = {SecondField(recs[i]) : i \in two}
              /\ \A p \in DOMAIN c.result :
                    /\ c.result[p].path = p
                    /\ \E i \in two :
                          /\ SecondField(recs[i]) = p
                          /\ c.result[p].status = StatusOfCode(recs[i].code)
              /\ ( /\ last[u].ok /\ last[u].head = c.head
                   /\ (last[u].op \in BranchOps) # (c.op \in BranchOps) )
                    => c.result = last[u].result

ParsedAlikeInBothCasesWitness ==
    \E u \in Callers :
        LET c == call[u]
            recs == nameStatus[c.head]
        IN  /\ Succeeded(c) /\ c.op \in BranchOps
            /\ last[u].ok /\ last[u].head = c.head
            /\ last[u].op \notin BranchOps
            /\ Len(recs) = 2
            /\ recs[1].code = <<"R", "1", "0", "0">>
            /\ recs[2].path = <<>>
            /\ c.result = (Pa :> FileChange(Pa, Modified))
            /\ c.result = last[u].result

\* C13: in the map of a successful operation the status of a path is that
\* of the last line that names it, and the map has as many entries as the
\* output has distinct parsed paths.
LastLineWins ==
    \A u \in Callers :
        LET c == call[u]
            recs == nameStatus[c.head]
            two == TwoFields(recs)
        IN  Succeeded(c) =>
              /\ \A p \in DOMAIN c.result :
                    LET at == {i \in two : SecondField(recs[i]) = p}
                        final == CHOOSE i \in at : \A j \in at : j <= i
                    IN  /\ at # {}
                        /\ c.result[p].status = StatusOfCode(recs[final].code)
              /\ Cardinality(DOMAIN c.result)
                    = Cardinality({SecondField(recs[i]) : i \in two})

LastLineWinsWitness ==
    \E u \in Callers :
        LET c == call[u]
            recs == nameStatus[c.head]
        IN  /\ Succeeded(c)
            /\ Len(recs) = 2
            /\ recs[1].path = recs[2].path
            /\ recs[1].code = <<"A">> /\ recs[2].code = <<"D">>
            /\ Cardinality(DOMAIN c.result) = 1
            /\ \A p \in DOMAIN c.result : c.result[p].status = Deleted

CommitOps == Ops \ BranchOps

Issued(c, name) == {i \in 1..Len(c.cmds) : c.cmds[i].cmd = name}

Reads(c) ==
    Issued(c, "diff --name-status") \cup Issued(c, "show") \cup Issued(c, "diff")

\* C15: in a branch operation every name-status diff, show and per-path diff
\* comes after a successful checkout of the analysed branch, and so does every
\* written file; a failed checkout is the last command of the call, which
\* returns its error with no map, no diff of any kind and no file written.
CheckoutPrecedesDiffAndWrites ==
    \A u \in Callers :
        LET c == call[u] IN
        c.op \in BranchOps =>
            /\ \A i \in Reads(c) :
                  \E j \in Issued(c, "checkout") :
                      j < i /\ c.cmds[j].ok /\ c.cmds[j].ref = c.head
            /\ c.wrote # <<>> =>
                  \E j \in Issued(c, "checkout") : c.cmds[j].ok
            /\ \A j \in Issued(c, "checkout") :
                  ~c.cmds[j].ok =>
                      /\ j = Len(c.cmds)
                      /\ c.pc = "done" /\ c.err = "GitCommandError"
                      /\ c.result = EmptyMap
                      /\ Reads(c) = {}
                      /\ c.wrote = <<>>

CheckoutPrecedesDiffAndWritesWitness ==
    \E u \in Callers :
        LET c == call[u] IN
        /\ c.op = "export_changes_from_default_branch" /\ c.pc = "done"
        /\ Len(c.cmds) = 2
        /\ c.cmds[1].cmd = "symbolic-ref" /\ c.cmds[1].ok
        /\ c.cmds[2].cmd = "checkout" /\ ~c.cmds[2].ok
        /\ c.target_branch = RemoteHead
        /\ c.err = "GitCommandError"
        /\ files = <<>>

\* The commands of a call that name a comparison base.
Compares(c) == Issued(c, "diff --name-status") \cup Issued(c, "diff")

\* C16 as stated: a branch call with an explicit target never discovers and
\* compares against the explicit name; a finished branch call without one has
\* discovered exactly once and compares against the discovered name.
BaseResolvedExactlyOnce ==
    \A u \in Callers :
        LET c == call[u] IN
        (c.op \in BranchOps /\ c.pc = "done") =>
            IF c.op \in DefaultOps
            THEN /\ Cardinality(Issued(c, "symbolic-ref")) = 1
                 /\ \A i \in Compares(c) : c.cmds[i].base = originHead
            ELSE /\ Issued(c, "symbolic-ref") = {}
                 /\ \A i \in Compares(c) : c.cmds[i].base = ExplicitTarget

\* C16: a branch call with an explicit target never discovers and every diff
\* it issues has the explicit name as base; a branch call without one
\* discovers at most once, has discovered successfully before any diff it
\* issues, every such diff has the discovered name as base, and it ends
\* without a discovery only when its checkout, issued first, failed.
BaseResolvedAtMostOnce ==
    \A u \in Callers :
        LET c == call[u]
            found == Issued(c, "symbolic-ref")
        IN  c.op \in BranchOps =>
              IF c.op \in DefaultOps
              THEN /\ Cardinality(found) <= 1
                   /\ \A i \in Compares(c) :
                         /\ \E j \in found : j < i /\ c.cmds[j].ok
                         /\ c.cmds[i].base = originHead
                   /\ Succeeded(c) => Cardinality(found) = 1
                   /\ (c.pc = "done" /\ found = {}) =>
                         /\ c.op = "list_changes_from_default_branch"
                         /\ Len(c.cmds) = 1
                         /\ c.cmds[1].cmd = "checkout" /\ ~c.cmds[1].ok
              ELSE /\ found = {}
                   /\ \A i \in Compares(c) : c.cmds[i].base = ExplicitTarget

BaseResolvedAtMostOnceWitness ==
    \E u \in Callers :
        LET c == call[u] IN
        /\ Succeeded(c) /\ c.op = "export_changes_from_default_branch"
        /\ Cardinality(Issued(c, "symbolic-ref")) = 1
        /\ Issued(c, "diff") # {}
        /\ \A i \in Compares(c) : c.cmds[i].base = RemoteHead

\* Two log entries are one invocation issued twice.
SameInvocation(a, b) ==
    /\ a.cmd = b.cmd /\ a.range = b.range /\ a.base = b.base
    /\ a.ref = b.ref /\ a.path = b.path

IssuedOnce(c) ==
    \A i, j \in 1..Len(c.cmds) :
        i # j => ~SameInvocation(c.cmds[i], c.cmds[j])

\* C17 as stated: no invocation is issued twice within a call, no invocation
\* follows one that failed, and a successful call has issued the name-status
\* diff exactly once.
NothingIssuedAfterAFailure ==
    \A u \in Callers :
        LET c == call[u] IN
        /\ IssuedOnce(c)
        /\ \A i \in 1..Len(c.cmds) : ~c.cmds[i].ok => i = Len(c.cmds)
        /\ Succeeded(c) => Cardinality(Issued(c, "diff --name-status")) = 1

\* C17: no invocation is issued twice within a call; a failed invocation
\* other than the existence check is the last one and the call has returned
\* its error; a failed existence check is the first invocation and only the
\* fetch follows it directly; a call with an error has returned; a successful
\* call has issued the name-status diff exactly once.
NoRetries ==
    \A u \in Callers :
        LET c == call[u] IN
        /\ IssuedOnce(c)
        /\ \A i \in 1..Len(c.cmds) :
              ~c.cmds[i].ok =>
                  IF c.cmds[i].cmd = "cat-file -e"
                  THEN /\ i = 1
                       /\ Len(c.cmds) > 1 => c.cmds[2].cmd = "fetch origin"
                  ELSE /\ i = Len(c.cmds)
                       /\ c.pc = "done" /\ c.err = "GitCommandError"
        /\ c.err # "none" =>
              /\ c.pc = "done"
              /\ c.cmds # <<>>
              /\ ~c.cmds[Len(c.cmds)].ok \/ c.err = "IoError"
        /\ Succeeded(c) => Cardinality(Issued(c, "diff --name-status")) = 1

NoRetriesWitness ==
    \E u \in Callers :
        LET c == call[u] IN
        /\ Succeeded(c) /\ c.op = "export_commit_changes"
        /\ Len(c.cmds) = 5
        /\ ~c.cmds[1].ok
        /\ c.cmds[2].cmd = "fetch origin" /\ c.cmds[2].ok
        /\ c.cmds[3].cmd = "diff --name-status"
        /\ c.cmds[4].cmd = "show"
        /\ c.cmds[5].cmd = "diff"

\* The call has checked its branch out and has not returned.
AfterOwnCheckout(c) ==
    /\ InProgress(c)
    /\ \E j \in Issued(c, "checkout") : c.cmds[j].ok

\* C18: a branch call that no call of another caller overlaps has, from its
\* checkout to its return, the working tree at its own branch, and its
\* name-status diff ran there; a diff that ran with the tree at another ref
\* belongs to a call another caller's call overlapped.
SequentialDiffSeesOwnBranch ==
    \A u \in Callers :
        LET c == call[u] IN
        (c.op \in BranchOps /\ c.alone) =>
            /\ AfterOwnCheckout(c) => checkedOut = c.head
            /\ c.tree # "none" => c.tree = c.head

\* The race: two callers, two branches, both checkouts succeeded, and the
\* diff and the export of one ran with the tree at the branch of the other.
SequentialDiffSeesOwnBranchWitness ==
    \E u, v \in Callers :
        LET c == call[u]
            d == call[v]
        IN  /\ u # v
            /\ c.op = "export_branch_changes" /\ Succeeded(c)
            /\ d.op \in BranchOps /\ d.head # c.head
            /\ \E j \in Issued(d, "checkout") : d.cmds[j].ok
            /\ c.tree = d.head
            /\ checkedOut = d.head
            /\ c.wrote # <<>>
            /\ ~c.alone

\* The step issues, for caller u, a command to a file that could not be
\* spawned or exited non-zero.
ToFileCommandFailed(u) ==
    /\ Len(call'[u].cmds) = Len(call[u].cmds) + 1
    /\ call'[u].cmds[Len(call'[u].cmds)].cmd \in ToFileCmds
    /\ ~call'[u].cmds[Len(call'[u].cmds)].ok

\* The call has written nothing to the file so far.
Untouched(c, file) == \A i \in 1..Len(c.wrote) : c.wrote[i].file # file

\* C19 as stated: a failed command to a file returns GitCommandError and
\* changes no directory and no file; for a Modified path, after a failed
\* per-path diff the content file exists and the .diff file does not, and
\* after a failed show neither exists.
FailedToFileLeavesNoFile ==
    [][ \A u \in Callers :
          ToFileCommandFailed(u) =>
            LET c == call[u]
                k == call'[u].cmds[Len(call'[u].cmds)]
                content == Join(OutDir, k.path)
                sibling == Join(OutDir, k.path \o <<".diff">>)
            IN  /\ call'[u].err = "GitCommandError"
                /\ dirs' = dirs /\ files' = files
                /\ c.change_files[k.path].status = Modified =>
                      IF k.cmd = "diff"
                      THEN /\ content \in DOMAIN files'
                           /\ sibling \notin DOMAIN files'
                      ELSE /\ content \notin DOMAIN files'
                           /\ sibling \notin DOMAIN files' ]_vars

\* C19: a failed command to a file returns GitCommandError and changes no
\* directory and no file; for a Modified path, a failed per-path diff comes
\* after the content file was written by the same call and leaves it in
\* place; the files a failed show or diff did not get to write are absent
\* when the output directory held no file at the start of the export and the
\* call has written nothing to them for another entry.
FailedToFileTouchesNothing ==
    [][ \A u \in Callers :
          ToFileCommandFailed(u) =>
            LET c == call[u]
                k == call'[u].cmds[Len(call'[u].cmds)]
                content == Join(OutDir, k.path)
                sibling == Join(OutDir, k.path \o <<".diff">>)
            IN  /\ call'[u].err = "GitCommandError"
                /\ call'[u].wrote = c.wrote
                /\ dirs' = dirs /\ files' = files
                /\ c.change_files[k.path].status = Modified =>
                      /\ (c.fresh /\ Untouched(c, sibling))
                            => sibling \notin DOMAIN files'
                      /\ IF k.cmd = "diff"
                         THEN /\ c.wrote # <<>>
                              /\ c.wrote[Len(c.wrote)].entry = k.path
                              /\ c.wrote[Len(c.wrote)].file = content
                              /\ content \in DOMAIN files'
                              /\ files'[content].kind = "show"
                              /\ files'[content].path = k.path
                         ELSE (c.fresh /\ Untouched(c, content))
                                 => content \notin DOMAIN files' ]_vars

FailedToFileTouchesNothingWitness ==
    \E u \in Callers :
        LET c == call[u]
            k == c.cmds[Len(c.cmds)]
        IN  /\ c.op \in ExportOps /\ c.pc = "done"
            /\ c.err = "GitCommandError" /\ c.fresh
            /\ k.cmd = "diff" /\ ~k.ok
            /\ k.path = Pdb
            /\ Join(OutDir, Pdb) \in DOMAIN files
            /\ Join(OutDir, Pdb \o <<".diff">>) \notin DOMAIN files
            /\ Parent(Join(OutDir, Pdb)) \in dirs
====
